---- MODULE Spec2Model ----
(***************************************************************************)
(* Model of the property-view counter (routes/property_views.js), of the   *)
(* property_views table it writes to (database schema) and of the          *)
(* dashboard statistics cache (routes/dashboard.js).                       *)
(*                                                                         *)
(* Time is in milliseconds, as Date.now() gives it.  A request is one      *)
(* slot of reqs; its handler runs in the steps the event loop gives it:    *)
(* the synchronous part up to the first await, then one step per store     *)
(* round trip.                                                             *)
(***************************************************************************)
EXTENDS Integers, Sequences, FiniteSets, Bags, TLC

\* ---------------------------------------------------------------- bounds
MaxReqs == 2
MaxRows == 2
MaxTicks == 1
TickMs == 1000
\* Those of the specification of the dashboard statistics.
\* Requests and ticks of the authenticated requests.
MaxAuthReqs == 2
MaxAuthTicks == 1
\* Connections to GET /notifications/stream.
MaxStreams == 3
\* Rows of public.notifications.
MaxNotifications == 3
MaxStatsReqs == 3
MaxStatsTicks == 5
StatsTickMs == 1000

\* ------------------------------------------------------ program constants
MsPerDay == 24 * 60 * 60 * 1000
cacheDuration == 4000
\* The delay of the timeout of GET /stats.
timeoutMs == 5000

NULL == "null"

\* The value of JWT_SECRET in the environment of a process that has it.
Secret == "secret"

\* The process starts one tick before midnight (UTC) of day 1.
StartTime == MsPerDay - TickMs
MaxTime == StartTime + MaxTicks * TickMs

ReqIds == 1..MaxReqs
StatsReqIds == 1..MaxStatsReqs
MaxStatsTime == StartTime + MaxStatsTicks * StatsTickMs

\* Path segments a client can send as :id (a segment is never empty).
RawIds == { <<" ">>, <<" ", "a">> }
\* Rows of public.properties: the targets of property_views_property_id_fkey.
Properties == { <<"a">> }
Ips == { "ip1", "ip2" }
\* The address a request comes from; NULL when the request has none.
RequestIps == Ips \cup { NULL }

\* ------------------------------------------------------------- pure parts
RECURSIVE TrimStart(_)
TrimStart(s) ==
  IF s = <<>> THEN s
  ELSE IF Head(s) = " " THEN TrimStart(Tail(s)) ELSE s

RECURSIVE TrimEnd(_)
TrimEnd(s) ==
  IF s = <<>> THEN s
  ELSE IF s[Len(s)] = " " THEN TrimEnd(SubSeq(s, 1, Len(s) - 1)) ELSE s

\* String.prototype.trim
Trim(s) == TrimEnd(TrimStart(s))

\* new Date(ms).toISOString(): the UTC calendar day and the time of day.
toISOString(ms) == [ day |-> ms \div MsPerDay, tod |-> ms % MsPerDay ]

\* The cast of a timestamp literal to the column type date keeps the day.
CastToDate(iso) == iso.day

\* ------------------------------------------------------------- the store
\* public.property_views is a bag of rows.  The id of a row is a generated
\* uuid that nothing reads and viewed_at a default that nothing reads: a row
\* is kept as its other columns.
Columns ==
  { "id", "property_id", "profiles_id", "viewed_at", "ip_address", "viewed_date" }

\* NOT NULL columns that have no DEFAULT.
RequiredColumns == { "property_id", "ip_address", "viewed_date" }

\* The columns of unique_ip_view_24h agree.
SameKey(x, pid, ip, date) ==
  /\ x.property_id = pid
  /\ x.ip_address = ip
  /\ x.viewed_date = date

\* The row an INSERT stores.  A key that is missing from row is a column
\* left at its DEFAULT, or NULL when it has none.
StoredRow(row) ==
  [ property_id |-> row.property_id,
    profiles_id |-> IF "profiles_id" \in DOMAIN row THEN row.profiles_id ELSE NULL,
    ip_address |-> row.ip_address,
    viewed_date |-> CastToDate(row.viewed_date) ]

\* As UniqueViolation, with the index unique_ip_view_24h never created.
UniqueViolation_NoIndex(table, row) == FALSE

\* unique_ip_view_24h rejects row.
UniqueViolation(table, row) ==
  \E x \in BagToSet(table) :
    SameKey(x, row.property_id, row.ip_address, CastToDate(row.viewed_date))

\* The clients of config/database.js, by the role of their key.
supabase == "anon"
supabaseAdmin == "service_role"

\* Row level security is enabled on property_views and no policy is defined
\* for it: the service role bypasses it, every other role may insert no row
\* and is shown no row.
BypassesRLS(role) == role = "service_role"

\* The error an INSERT of row into table by role ends with, "none" when it
\* succeeds: an unknown column is refused before the statement runs, then
\* come row level security, NOT NULL, the unique index and the foreign key.
InsertError(table, row, role, up) ==
  IF ~up THEN "unavailable"
  ELSE IF DOMAIN row \ Columns # {} THEN "PGRST204"
  ELSE IF ~BypassesRLS(role) THEN "42501"
  ELSE IF RequiredColumns \ DOMAIN row # {} THEN "23502"
  ELSE IF UniqueViolation(table, row) THEN "23505"
  ELSE IF row.property_id \notin Properties THEN "23503"
  ELSE "none"

\* As Insert, with the row written, as far as it was sent, when the
\* connection to the store is lost.
Insert_Partial(table, row, role, up) ==
  IF InsertError(table, row, role, up) = "none"
  THEN table (+) SetToBag({ StoredRow(row) })
  ELSE IF InsertError(table, row, role, up) = "unavailable"
  THEN table (+) SetToBag({
         [ property_id |-> row.property_id, profiles_id |-> NULL,
           ip_address |-> NULL, viewed_date |-> CastToDate(row.viewed_date) ] })
  ELSE table

\* The table after an INSERT of row by role.
Insert(table, row, role, up) ==
  IF InsertError(table, row, role, up) = "none"
  THEN table (+) SetToBag({ StoredRow(row) })
  ELSE table

\* The rows of table a SELECT by role is shown.
Visible(table, role) ==
  IF BypassesRLS(role) THEN BagToSet(table) ELSE {}

\* The number of rows of table that are in the set S.
RECURSIVE RowCount(_, _)
RowCount(table, S) ==
  IF S = {} THEN 0
  ELSE LET x == CHOOSE y \in S : TRUE
       IN CopiesIn(x, table) + RowCount(table, S \ { x })

\* select('*', { count: 'exact', head: true }).eq('property_id', pid)
CountWhere(table, role, pid) ==
  RowCount(table, { x \in Visible(table, role) : x.property_id = pid })

\* get_property_views(property_uuid): SECURITY DEFINER, it counts every row.
get_property_views(table, pid) == CountWhere(table, "service_role", pid)

\* The answer of one count query of the dashboard: { count, error }.  The
\* client resolves with an error instead of rejecting; count is then null.
NullCount == 0 - 1
Counted(n) == [ count |-> n, error |-> FALSE ]
Failed == [ count |-> NullCount, error |-> TRUE ]

\* The answers the four queries of one stats request can get: those of
\* properties, profiles, property_inquiries and contact_submissions.
QueryResults ==
  { << Counted(1), Counted(1), Counted(1), Counted(1) >>,
    << Failed, Counted(1), Counted(0), Failed >> }

\* count || 0
OrZero(count) == IF count = NullCount \/ count = 0 THEN 0 ELSE count

\* The count the handler keeps of a query: 0 when the query has an error.
Kept(query) == IF query.error THEN 0 ELSE OrZero(query.count)

\* responseData: << totalProperties, activeUsers, pendingInquiries >>
ResponseData(results) ==
  << Kept(results[1]), Kept(results[2]), Kept(results[3]) + Kept(results[4]) >>

\* statsCache.data = null
NullData == << >>

\* The counts of the responses 408 and 500 of GET /stats: all are 0.
ZeroData == << 0, 0, 0 >>

\* The store requests of one computation of the statistics, in the order
\* of the array given to Promise.all.
StatsQueryNames ==
  << "count properties", "count profiles", "count property_inquiries",
     "count contact_submissions" >>

\* The locals propertiesQuery .. contactSubmissionsQuery before the await.
NoResults == << >>

\* As CacheValid, with a response served up to the end of its last
\* millisecond.
CacheValid_Inclusive(cache, n) ==
  /\ cache.data # NullData
  /\ n - cache.timestamp <= cacheDuration

\* The cached response may be served at the time n.
CacheValid(cache, n) ==
  /\ cache.data # NullData
  /\ n - cache.timestamp < cacheDuration

\* ------------------------------------------------------------- the state
VARIABLES
  now,             \* Date.now()
  property_views,  \* rows of public.property_views
  reqs,            \* the requests, by slot
  statsCache,      \* routes/dashboard.js statsCache: [data, timestamp]
  process,         \* the server process: its state and process.env.JWT_SECRET
  auth_users,      \* ids of the rows of auth.users
  profiles,        \* profiles_id of the rows of public.profiles
  activeChannels,  \* the Map activeChannels of the notifications router
  streams,         \* the GET /notifications/stream connections, by slot
  testimonials,    \* rows of public.testimonials, by id
  notifications    \* rows of public.notifications

\* The state of the server but the views, their requests and the cache.
ext ==
  << process, auth_users, profiles, activeChannels, streams, testimonials,
     notifications >>

vars == << now, property_views, reqs, statsCache, ext >>

\* A slot no request has taken yet.  ip is the address the request comes
\* from, rawId its :id parameter; the other fields are the handler's locals
\* (t0 is the now of GET /stats, timer its timeout, results the answers of
\* its queries) and its response.  ops lists the requests the handler has
\* sent to the store, writes counts its calls of res.json.  authorization is
\* its Authorization header, query its token parameter and pass the number
\* of runs of authenticateToken it has entered.
IdleReq ==
  [ kind |-> "none", pc |-> "idle", rawId |-> <<>>, ip |-> NULL,
    propertyId |-> <<>>, viewed_date |-> toISOString(0), user |-> NULL,
    error |-> "none", status |-> 0, count |-> -1,
    t0 |-> 0, timer |-> "none", body |-> NullData,
    ops |-> << >>, results |-> NoResults, writes |-> 0,
    authorization |-> << >>, query |-> NULL, pass |-> 0 ]

\* The process after index.js has run with JWT_SECRET set: it listens.
Started ==
  process = [ state |-> "listening", JWT_SECRET |-> Secret ]

\* No user has been created.
NoUsers ==
  /\ auth_users = {}
  /\ profiles = {}

\* No client has connected to GET /notifications/stream.
NoStreams ==
  /\ activeChannels = << >>
  /\ streams = << >>

\* No testimonial has been written.
NoTestimonials ==
  /\ testimonials = << >>
  /\ notifications = EmptyBag

Init ==
  /\ now = StartTime
  /\ property_views = EmptyBag
  /\ reqs = [ r \in ReqIds |-> IdleReq ]
  /\ statsCache = [ data |-> NullData, timestamp |-> 0 ]
  /\ Started /\ NoUsers /\ NoStreams /\ NoTestimonials

\* As ViewRow, with the address of the request sent as ip_address and no
\* user_id.
ViewRow_WithIp(q) ==
  [ property_id |-> q.propertyId, ip_address |-> q.ip, viewed_date |-> q.viewed_date ]

\* The row the POST handler sends: property_id, viewed_date and user_id.
ViewRow(q) ==
  [ property_id |-> q.propertyId, viewed_date |-> q.viewed_date, user_id |-> q.user ]

\* --------------------------------------------------------------- actions
\* The process listens (app.listen has run and the process has not exited).
Listening == process.state = "listening"

\* Requests are accepted while the process listens, and take the slots in
\* the order they arrive.
NextSlot(r) ==
  /\ Listening
  /\ reqs[r].pc = "idle"
  /\ \A o \in DOMAIN reqs : o < r => reqs[o].pc # "idle"

\* Time passes.
Tick ==
  /\ now + TickMs <= MaxTime
  /\ now' = now + TickMs
  /\ UNCHANGED << property_views, reqs, statsCache, ext >>

\* Another client of the database inserts a view row, with the address of
\* its viewer.
InsertView ==
  \E pid \in Properties \cup { <<"c">> }, ip \in Ips,
     role \in { "anon", "service_role" }, up \in BOOLEAN :
    LET row == [ property_id |-> pid, ip_address |-> ip,
                 viewed_date |-> toISOString(now) ]
    IN /\ BagCardinality(property_views) < MaxRows
       /\ property_views' = Insert(property_views, row, role, up)
       /\ UNCHANGED << now, reqs, statsCache, ext >>

\* POST /api/property-views/:id up to the await of the insert.  The route is
\* mounted without authenticateToken, so req.user is undefined.
RecordView(r) ==
  \E raw \in RawIds, ip \in RequestIps :
    LET propertyId == Trim(raw)
        q == [ IdleReq EXCEPT !.kind = "POST", !.rawId = raw, !.ip = ip,
                              !.propertyId = propertyId ]
    IN /\ NextSlot(r)
       /\ IF propertyId = <<>>
          THEN reqs' = [ reqs EXCEPT ![r] = [ q EXCEPT !.pc = "done", !.status = 400, !.writes = 1 ] ]
          ELSE reqs' = [ reqs EXCEPT ![r] =
                 [ q EXCEPT !.pc = "insert", !.viewed_date = toISOString(now),
                            !.user = NULL, !.ops = << "insert property_views" >> ] ]
       /\ UNCHANGED << now, property_views, statsCache, ext >>

\* As RecordViewInsert, with the stored views of the property deleted
\* before the insert.
RecordViewInsert_Replacing(r) ==
  \E up \in BOOLEAN :
    LET q == reqs[r]
        kept == { x \in BagToSet(property_views) : x.property_id # q.propertyId }
        others == [ x \in kept |-> property_views[x] ]
        insertError == InsertError(others, ViewRow(q), supabaseAdmin, up)
    IN /\ q.pc = "insert"
       /\ property_views' = Insert(others, ViewRow(q), supabaseAdmin, up)
       /\ IF insertError # "none"
          THEN reqs' = [ reqs EXCEPT ![r] =
                 [ q EXCEPT !.pc = "done", !.error = insertError, !.status = 500, !.writes = 1 ] ]
          ELSE reqs' = [ reqs EXCEPT ![r] =
                 [ q EXCEPT !.pc = "count",
                            !.ops = Append(q.ops, "count property_views") ] ]
       /\ UNCHANGED << now, statsCache, ext >>

\* The store runs the insert and the handler resumes: on insertError it
\* throws to the catch block (500), otherwise it sends the count query.
RecordViewInsert(r) ==
  \E up \in BOOLEAN :
    LET q == reqs[r]
        insertError == InsertError(property_views, ViewRow(q), supabaseAdmin, up)
    IN /\ q.pc = "insert"
       /\ property_views' = Insert(property_views, ViewRow(q), supabaseAdmin, up)
       /\ IF insertError # "none"
          THEN reqs' = [ reqs EXCEPT ![r] =
                 [ q EXCEPT !.pc = "done", !.error = insertError, !.status = 500, !.writes = 1 ] ]
          ELSE reqs' = [ reqs EXCEPT ![r] =
                 [ q EXCEPT !.pc = "count",
                            !.ops = Append(q.ops, "count property_views") ] ]
       /\ UNCHANGED << now, statsCache, ext >>

\* As GetViewCount, with the insert of the POST handler copied into it.
GetViewCount_Recording(r) ==
  \E raw \in RawIds, ip \in Ips :
    LET propertyId == Trim(raw)
        q == [ IdleReq EXCEPT !.kind = "GET", !.rawId = raw,
                              !.propertyId = propertyId ]
        row == [ property_id |-> propertyId, ip_address |-> ip,
                 viewed_date |-> toISOString(now) ]
    IN /\ NextSlot(r)
       /\ IF propertyId = <<>>
          THEN /\ reqs' = [ reqs EXCEPT ![r] = [ q EXCEPT !.pc = "done", !.status = 400, !.writes = 1 ] ]
               /\ UNCHANGED property_views
          ELSE /\ reqs' = [ reqs EXCEPT ![r] =
                      [ q EXCEPT !.pc = "count",
                                 !.ops = << "insert property_views",
                                            "count property_views" >> ] ]
               /\ property_views' = Insert(property_views, row, supabaseAdmin, TRUE)
       /\ UNCHANGED << now, statsCache, ext >>

\* GET /api/property-views/:id up to the await of the count query.
GetViewCount(r) ==
  \E raw \in RawIds :
    LET propertyId == Trim(raw)
        q == [ IdleReq EXCEPT !.kind = "GET", !.rawId = raw,
                              !.propertyId = propertyId ]
    IN /\ NextSlot(r)
       /\ IF propertyId = <<>>
          THEN reqs' = [ reqs EXCEPT ![r] = [ q EXCEPT !.pc = "done", !.status = 400, !.writes = 1 ] ]
          ELSE reqs' = [ reqs EXCEPT ![r] =
                 [ q EXCEPT !.pc = "count", !.ops = << "count property_views" >> ] ]
       /\ UNCHANGED << now, property_views, statsCache, ext >>

\* The store runs the count query of either handler and the handler
\* answers: 500 on an error, otherwise { success: true, data: { count } }.
ViewCount(r) ==
  \E up \in BOOLEAN :
    LET q == reqs[r]
    IN /\ q.pc = "count"
       /\ IF ~up
          THEN reqs' = [ reqs EXCEPT ![r] =
                 [ q EXCEPT !.pc = "done", !.error = "unavailable", !.status = 500, !.writes = 1 ] ]
          ELSE reqs' = [ reqs EXCEPT ![r] =
                 [ q EXCEPT !.pc = "done", !.status = 200, !.writes = 1,
                            !.count = CountWhere(property_views, supabase, q.propertyId) ] ]
       /\ UNCHANGED << now, property_views, statsCache, ext >>

\* The handler of GET /stats for request q, whose now is q.t0, up to the
\* await of the four queries: the cached response is served while it is
\* valid, otherwise the timeout is set and the queries are sent.
StatsStart(q) ==
  IF CacheValid(statsCache, q.t0)
  THEN [ q EXCEPT !.pc = "done", !.status = 200, !.writes = 1,
                  !.body = statsCache.data ]
  ELSE [ q EXCEPT !.pc = "query", !.timer = "armed", !.ops = StatsQueryNames ]

\* As DashboardStats, with the check of the cache left out.
DashboardStats_NoCache(r) ==
  LET q == [ IdleReq EXCEPT !.kind = "STATS", !.t0 = now ]
  IN /\ NextSlot(r)
     /\ reqs' = [ reqs EXCEPT ![r] =
          [ q EXCEPT !.pc = "query", !.timer = "armed", !.ops = StatsQueryNames ] ]
     /\ UNCHANGED << now, property_views, statsCache, ext >>

\* GET /api/dashboard/stats of a request that authenticateToken has let
\* through, up to the await of the four queries.
DashboardStats(r) ==
  LET q == [ IdleReq EXCEPT !.kind = "STATS", !.t0 = now ]
  IN /\ NextSlot(r)
     /\ reqs' = [ reqs EXCEPT ![r] = StatsStart(q) ]
     /\ UNCHANGED << now, property_views, statsCache, ext >>

\* The timeout of request q is set and its delay has passed: its callback
\* runs before the answers of the queries are handled.
TimerDue(q) == q.timer = "armed" /\ now - q.t0 >= timeoutMs

\* The callback of the timeout: it answers 408 with counts of 0.  The
\* handler stays at its await.
StatsTimeout(r) ==
  LET q == reqs[r]
  IN /\ q.pc = "query"
     /\ TimerDue(q)
     /\ reqs' = [ reqs EXCEPT ![r] =
          [ q EXCEPT !.timer = "fired", !.status = 408, !.writes = 1, !.body = ZeroData ] ]
     /\ UNCHANGED << now, property_views, statsCache, ext >>

\* The request q after res.json(body) with the status code: when the
\* timeout has answered already, the call throws ERR_HTTP_HEADERS_SENT, and
\* so does the one of the outer catch block; the response stays as sent.
Respond(q, code, body) ==
  IF q.timer = "fired"
  THEN [ q EXCEPT !.pc = "done", !.error = "ERR_HTTP_HEADERS_SENT",
                  !.writes = @ + 1 ]
  ELSE [ q EXCEPT !.pc = "done", !.timer = "cleared", !.status = code,
                  !.body = body, !.writes = @ + 1 ]

\* The outer catch block for a throw of res.json(responseData): it calls
\* res.status(500).json, which throws in turn; the rejection of the handler
\* is handled nowhere.
Caught(q) ==
  IF q.error = "ERR_HTTP_HEADERS_SENT" THEN Respond(q, 500, ZeroData) ELSE q

\* As StatsQueries, with the time the queries have answered at stored as
\* the timestamp.
StatsQueries_CompletionTime(r) ==
  \E results \in QueryResults :
    LET q == reqs[r]
        responseData == ResponseData(results)
    IN /\ q.pc = "query"
       /\ ~TimerDue(q)
       /\ statsCache' = [ data |-> responseData, timestamp |-> now ]
       /\ reqs' = [ reqs EXCEPT ![r] =
            Caught(Respond([ q EXCEPT !.results = results ], 200, responseData)) ]
       /\ UNCHANGED << now, property_views, ext >>

\* As StatsQueries, with a response that is not stored when the stored one
\* is of a request that started at the same time or later.
StatsQueries_KeepNewer(r) ==
  \E results \in QueryResults :
    LET q == reqs[r]
        responseData == ResponseData(results)
    IN /\ q.pc = "query"
       /\ ~TimerDue(q)
       /\ IF statsCache.data # NullData /\ statsCache.timestamp >= q.t0
          THEN UNCHANGED statsCache
          ELSE statsCache' = [ data |-> responseData, timestamp |-> q.t0 ]
       /\ reqs' = [ reqs EXCEPT ![r] =
            Caught(Respond([ q EXCEPT !.results = results ], 200, responseData)) ]
       /\ UNCHANGED << now, property_views, ext >>

\* As StatsQueries, with the queries sent again when one of them has
\* answered with an error.
StatsQueries_Retrying(r) ==
  \E results \in QueryResults :
    LET q == reqs[r]
        responseData == ResponseData(results)
    IN /\ q.pc = "query"
       /\ ~TimerDue(q)
       /\ IF \E i \in DOMAIN results : results[i].error
          THEN /\ reqs' = [ reqs EXCEPT ![r] =
                      [ q EXCEPT !.ops = q.ops \o StatsQueryNames ] ]
               /\ UNCHANGED statsCache
          ELSE /\ statsCache' = [ data |-> responseData, timestamp |-> q.t0 ]
               /\ reqs' = [ reqs EXCEPT ![r] =
                    Caught(Respond([ q EXCEPT !.results = results ], 200, responseData)) ]
       /\ UNCHANGED << now, property_views, ext >>

\* As StatsQueries, with the response stored and the timestamp of the slot
\* left as it was.
StatsQueries_DataOnly(r) ==
  \E results \in QueryResults :
    LET q == reqs[r]
        responseData == ResponseData(results)
    IN /\ q.pc = "query"
       /\ ~TimerDue(q)
       /\ statsCache' = [ statsCache EXCEPT !.data = responseData ]
       /\ reqs' = [ reqs EXCEPT ![r] =
            Caught(Respond([ q EXCEPT !.results = results ], 200, responseData)) ]
       /\ UNCHANGED << now, property_views, ext >>

\* The four queries have answered and the handler resumes: it clears the
\* timeout, keeps 0 for a query that has an error, stores the response with
\* the now of its start and sends it.
StatsQueries(r) ==
  \E results \in QueryResults :
    LET q == reqs[r]
        responseData == ResponseData(results)
    IN /\ q.pc = "query"
       /\ ~TimerDue(q)
       /\ statsCache' = [ data |-> responseData, timestamp |-> q.t0 ]
       /\ reqs' = [ reqs EXCEPT ![r] =
            Caught(Respond([ q EXCEPT !.results = results ], 200, responseData)) ]
       /\ UNCHANGED << now, property_views, ext >>

\* Promise.all rejects (a query threw instead of answering with an error):
\* the inner catch clears the timeout and rethrows, the outer one answers
\* 500 with counts of 0.
StatsReject(r) ==
  LET q == reqs[r]
  IN /\ q.pc = "query"
     /\ ~TimerDue(q)
     /\ reqs' = [ reqs EXCEPT ![r] =
          Respond([ q EXCEPT !.error = "rejected" ], 500, ZeroData) ]
     /\ UNCHANGED << now, property_views, statsCache, ext >>

Next ==
  \/ Tick
  \/ InsertView
  \/ \E r \in ReqIds : RecordView(r)
  \/ \E r \in ReqIds : RecordViewInsert(r)
  \/ \E r \in ReqIds : GetViewCount(r)
  \/ \E r \in ReqIds : ViewCount(r)

Spec == Init /\ [][Next]_vars

\* The read paths: the view count and the dashboard statistics, with the
\* rows other clients insert.  MaxTime is less than the 5 seconds of the
\* statistics timeout after StartTime, so that no timeout is due.
NextRead ==
  \/ Tick
  \/ InsertView
  \/ \E r \in ReqIds : GetViewCount(r)
  \/ \E r \in ReqIds : ViewCount(r)
  \/ \E r \in ReqIds : DashboardStats(r)
  \/ \E r \in ReqIds : StatsQueries(r)

SpecRead == Init /\ [][NextRead]_vars

\* The three handlers together, on a table no other client writes to.
NextCalls ==
  \/ Tick
  \/ \E r \in ReqIds : RecordView(r)
  \/ \E r \in ReqIds : RecordViewInsert(r)
  \/ \E r \in ReqIds : GetViewCount(r)
  \/ \E r \in ReqIds : ViewCount(r)
  \/ \E r \in ReqIds : DashboardStats(r)
  \/ \E r \in ReqIds : StatsQueries(r)
  \/ \E r \in ReqIds : StatsReject(r)

SpecCalls == Init /\ [][NextCalls]_vars

\* The dashboard statistics alone, over the time it takes the cached
\* response to expire and the timeout to pass.
InitStats ==
  /\ now = StartTime
  /\ property_views = EmptyBag
  /\ reqs = [ r \in StatsReqIds |-> IdleReq ]
  /\ statsCache = [ data |-> NullData, timestamp |-> 0 ]
  /\ Started /\ NoUsers /\ NoStreams /\ NoTestimonials

TickStats ==
  /\ now + StatsTickMs <= MaxStatsTime
  /\ now' = now + StatsTickMs
  /\ UNCHANGED << property_views, reqs, statsCache, ext >>

NextStats ==
  \/ TickStats
  \/ \E r \in StatsReqIds : DashboardStats(r)
  \/ \E r \in StatsReqIds : StatsTimeout(r)
  \/ \E r \in StatsReqIds : StatsQueries(r)
  \/ \E r \in StatsReqIds : StatsReject(r)

SpecStats == InitStats /\ [][NextStats]_vars

\* ------------------------------------------------------- authentication
AuthReqIds == 1..MaxAuthReqs
MaxAuthTime == StartTime + MaxAuthTicks * TickMs

\* The users: u1 has a profile when the process starts, u2 has none.
Users == { "u1", "u2" }

\* The exp claim (seconds) of a token that expires with the first tick, and
\* of one that outlives the run.
ExpSoon == (StartTime + TickMs) \div 1000
ExpLate == (MaxAuthTime \div 1000) + 1

\* The tokens the requests carry, and what each is: the secret it is signed
\* with and its payload.
Tokens == { "good", "soon", "orphan", "nosub", "forged" }

Decode(token) ==
  CASE token = "good"   -> [ secret |-> Secret, exp |-> ExpLate, userId |-> "u1" ]
    [] token = "soon"   -> [ secret |-> Secret, exp |-> ExpSoon, userId |-> "u1" ]
    [] token = "orphan" -> [ secret |-> Secret, exp |-> ExpLate, userId |-> "u2" ]
    [] token = "nosub"  -> [ secret |-> Secret, exp |-> ExpLate, userId |-> NULL ]
    [] OTHER            -> [ secret |-> "forged", exp |-> ExpLate, userId |-> "u1" ]

\* The Authorization header and the token parameter of the requests: a
\* header is the sequence of its words, << >> when the request has none.
Credentials ==
  { [ authorization |-> << >>, query |-> NULL ],
    [ authorization |-> << "Bearer" >>, query |-> NULL ],
    [ authorization |-> << "good" >>, query |-> NULL ],
    [ authorization |-> << >>, query |-> "good" ] }
  \cup { [ authorization |-> << "Bearer", t >>, query |-> NULL ] : t \in Tokens }

\* The token authenticateToken takes from request q: the second word of a
\* "Bearer " header or the whole of another header, and the token parameter
\* when that gives none.
TokenOf(q) ==
  LET authHeader == q.authorization
      token == IF authHeader = << >> THEN NULL
               ELSE IF Head(authHeader) = "Bearer"
               THEN IF Len(authHeader) >= 2 THEN authHeader[2] ELSE NULL
               ELSE authHeader[1]
  IN IF token = NULL /\ q.query # NULL THEN q.query ELSE token

\* jwt.verify(token, secret) at time n: "ok", or the name of the error it
\* throws.  The signature is checked before the expiry; exp is in seconds.
verify(token, secret, n) ==
  IF secret = NULL THEN "Error"
  ELSE IF Decode(token).secret # secret THEN "JsonWebTokenError"
  ELSE IF n \div 1000 >= Decode(token).exp THEN "TokenExpiredError"
  ELSE "ok"

\* res.status(401).json of authenticateToken for request q.
Unauthorized(q) ==
  [ q EXCEPT !.pc = "done", !.status = 401, !.writes = @ + 1 ]

\* authenticateToken for request q up to the await of the profile: 401
\* without a token, with a token that jwt.verify throws for and with one
\* that names no user; otherwise the profile of the user is asked for.
authenticateToken(q) ==
  LET token == TokenOf(q)
      entered == [ q EXCEPT !.pass = @ + 1 ]
  IN IF token = NULL THEN Unauthorized(entered)
     ELSE IF verify(token, process.JWT_SECRET, now) # "ok"
     THEN Unauthorized([ entered EXCEPT !.error =
                           verify(token, process.JWT_SECRET, now) ])
     ELSE IF Decode(token).userId = NULL THEN Unauthorized(entered)
     ELSE [ entered EXCEPT !.pc = "profile" ]

\* As Start, with the missing JWT_SECRET only logged.
Start_LogOnly ==
  /\ process.state = "starting"
  /\ process' = [ process EXCEPT !.state = "listening" ]
  /\ UNCHANGED << now, property_views, reqs, statsCache, auth_users, profiles,
                  activeChannels, streams, testimonials, notifications >>

\* The end of index.js: process.exit(1) when JWT_SECRET is not set,
\* app.listen otherwise.
Start ==
  /\ process.state = "starting"
  /\ process' = [ process EXCEPT !.state =
                    IF process.JWT_SECRET = NULL THEN "exited" ELSE "listening" ]
  /\ UNCHANGED << now, property_views, reqs, statsCache, auth_users, profiles,
                  activeChannels, streams, testimonials, notifications >>

TickAuth ==
  /\ now + TickMs <= MaxAuthTime
  /\ now' = now + TickMs
  /\ UNCHANGED << property_views, reqs, statsCache, ext >>

\* DELETE /api/users/:id deletes the profile of a user.
DeleteProfile ==
  \E u \in profiles :
    /\ Listening
    /\ profiles' = profiles \ { u }
    /\ UNCHANGED << now, property_views, reqs, statsCache, process, auth_users,
                    activeChannels, streams, testimonials, notifications >>

\* A request to GET /api/dashboard/stats arrives: app.use('/api/dashboard',
\* authenticateToken, dashboardRouter) runs authenticateToken.
Authenticate(r) ==
  \E c \in Credentials :
    LET q == [ IdleReq EXCEPT !.kind = "STATS",
                              !.authorization = c.authorization,
                              !.query = c.query ]
    IN /\ NextSlot(r)
       /\ reqs' = [ reqs EXCEPT ![r] = authenticateToken(q) ]
       /\ UNCHANGED << now, property_views, statsCache, ext >>

\* As AuthProfile, with next() called whatever the lookup has answered.
AuthProfile_Lenient(r) ==
  \E up \in BOOLEAN :
    LET q == reqs[r]
        userId == Decode(TokenOf(q)).userId
        user == [ q EXCEPT !.user = userId ]
    IN /\ q.pc = "profile"
       /\ reqs' = [ reqs EXCEPT ![r] =
            IF q.pass = 1 THEN authenticateToken(user)
            ELSE StatsStart([ user EXCEPT !.t0 = now ]) ]
       /\ UNCHANGED << now, property_views, statsCache, ext >>

\* The lookup of the profile answers and authenticateToken resumes: 401 on
\* an error or without a row; otherwise req.user is set and next() runs the
\* next handler: authenticateToken again, which the dashboard router uses
\* itself, and after it the handler of GET /stats.
AuthProfile(r) ==
  \E up \in BOOLEAN :
    LET q == reqs[r]
        userId == Decode(TokenOf(q)).userId
        profileError == ~up \/ userId \notin profiles
        user == [ q EXCEPT !.user = userId ]
    IN /\ q.pc = "profile"
       /\ reqs' = [ reqs EXCEPT ![r] =
            IF profileError THEN Unauthorized(q)
            ELSE IF q.pass = 1 THEN authenticateToken(user)
            ELSE StatsStart([ user EXCEPT !.t0 = now ]) ]
       /\ UNCHANGED << now, property_views, statsCache, ext >>

\* The process from its start, with and without JWT_SECRET, and the
\* requests to GET /api/dashboard/stats with their credentials.
InitAuth ==
  /\ now = StartTime
  /\ property_views = EmptyBag
  /\ reqs = [ r \in AuthReqIds |-> IdleReq ]
  /\ statsCache = [ data |-> NullData, timestamp |-> 0 ]
  /\ process \in { [ state |-> "starting", JWT_SECRET |-> s ] : s \in { NULL, Secret } }
  /\ auth_users = Users
  /\ profiles = { "u1" }
  /\ NoStreams /\ NoTestimonials

\* The handler of a request that passed both runs goes on to its queries,
\* which answer here: their rejection is a step of SpecStats.
NextAuth ==
  \/ Start
  \/ TickAuth
  \/ DeleteProfile
  \/ \E r \in AuthReqIds : Authenticate(r)
  \/ \E r \in AuthReqIds : AuthProfile(r)
  \/ \E r \in AuthReqIds : StatsQueries(r)

SpecAuth == InitAuth /\ [][NextAuth]_vars

\* ------------------------------------------------- notification streams
StreamIds == 1..MaxStreams

\* A slot no connection has taken yet.  open is false once res.end() has
\* run, channel is the state of the channel the stream has subscribed.
IdleStream == [ user |-> NULL, open |-> FALSE, channel |-> "none" ]

\* activeChannels.set(userId, channel): a channel is named by the slot of
\* its stream.
MapSet(map, userId, channel) ==
  [ k \in DOMAIN map \cup { userId } |-> IF k = userId THEN channel ELSE map[k] ]

\* activeChannels.delete(userId).
MapDelete(map, userId) ==
  [ k \in DOMAIN map \ { userId } |-> map[k] ]

\* supabase.removeChannel(channel) for the channel of the stream in slot s,
\* in the streams st: a channel that is joining or joined leaves.
removeChannel(st, s) ==
  IF st[s].channel \in { "joining", "SUBSCRIBED" }
  THEN [ st EXCEPT ![s].channel = "leaving" ]
  ELSE st

\* GET /notifications/stream of an authenticated user: setupSubscription
\* removes the channel activeChannels holds for the user, deletes the entry
\* and subscribes a new channel.
Stream(s) ==
  \E userId \in Users :
    LET removed == IF userId \in DOMAIN activeChannels
                   THEN removeChannel(streams, activeChannels[userId])
                   ELSE streams
    IN /\ Listening
       /\ streams[s].channel = "none"
       /\ \A o \in StreamIds : o < s => streams[o].channel # "none"
       /\ activeChannels' = MapDelete(activeChannels, userId)
       /\ streams' = [ removed EXCEPT ![s] =
            [ user |-> userId, open |-> TRUE, channel |-> "joining" ] ]
       /\ UNCHANGED << now, property_views, reqs, statsCache, process,
                       auth_users, profiles, testimonials, notifications >>

\* The subscribe callback of the stream in slot s is called with
\* SUBSCRIBED: it stores the channel under the user id.
Subscribed(s) ==
  /\ streams[s].channel = "joining"
  /\ streams' = [ streams EXCEPT ![s].channel = "SUBSCRIBED" ]
  /\ activeChannels' = MapSet(activeChannels, streams[s].user, s)
  /\ UNCHANGED << now, property_views, reqs, statsCache, process,
                  auth_users, profiles, testimonials, notifications >>

\* The subscribe callback is called with CHANNEL_ERROR, or with CLOSED once
\* the channel has left or the socket has closed: it deletes the entry of
\* the user id.
ChannelClosed(s) ==
  \E status \in { "CHANNEL_ERROR", "CLOSED" } :
    /\ streams[s].channel \in { "joining", "SUBSCRIBED", "leaving" }
    /\ streams[s].channel = "leaving" => status = "CLOSED"
    /\ streams' = [ streams EXCEPT ![s].channel = status ]
    /\ activeChannels' = MapDelete(activeChannels, streams[s].user)
    /\ UNCHANGED << now, property_views, reqs, statsCache, process,
                    auth_users, profiles, testimonials, notifications >>

\* The client of the stream in slot s disconnects (or the response has an
\* error, or the request times out): cleanup removes the channel of the
\* stream, deletes the entry of the user id and ends the response.
cleanup(s) ==
  /\ streams[s].open
  /\ streams' = [ removeChannel(streams, s) EXCEPT ![s].open = FALSE ]
  /\ activeChannels' = MapDelete(activeChannels, streams[s].user)
  /\ UNCHANGED << now, property_views, reqs, statsCache, process,
                  auth_users, profiles, testimonials, notifications >>

InitStream ==
  /\ now = StartTime
  /\ property_views = EmptyBag
  /\ reqs = [ r \in ReqIds |-> IdleReq ]
  /\ statsCache = [ data |-> NullData, timestamp |-> 0 ]
  /\ Started /\ NoUsers /\ NoTestimonials
  /\ activeChannels = << >>
  /\ streams = [ s \in StreamIds |-> IdleStream ]

NextStream ==
  \/ \E s \in StreamIds : Stream(s)
  \/ \E s \in StreamIds : Subscribed(s)
  \/ \E s \in StreamIds : ChannelClosed(s)
  \/ \E s \in StreamIds : cleanup(s)

SpecStream == InitStream /\ [][NextStream]_vars

\* ------------------------------------------------------------ POST /users
\* The id auth.users generates for the user request r creates.
UserIds == << "u1", "u2", "u3", "u4" >>

\* handleError: the response with the status of the error.
handleError(q, status) ==
  [ q EXCEPT !.pc = "done", !.status = status, !.writes = @ + 1 ]

\* POST /api/users up to the await of auth.admin.createUser: 400 when a
\* required field is missing.
CreateUser(r) ==
  \E valid \in BOOLEAN :
    LET q == [ IdleReq EXCEPT !.kind = "USER" ]
    IN /\ NextSlot(r)
       /\ reqs' = [ reqs EXCEPT ![r] =
            IF ~valid
            THEN handleError([ q EXCEPT !.error = "Missing required fields" ], 400)
            ELSE [ q EXCEPT !.pc = "createUser",
                            !.ops = << "auth.admin.createUser" >> ] ]
       /\ UNCHANGED << now, property_views, statsCache, ext >>

\* createUser answers: with an error (400), or with the user it has
\* inserted into auth.users.  The trigger on_auth_user_created has then run
\* handle_new_user, which stores a profile for the user unless one of its
\* statements raises: its exception handler then undoes the insert and
\* returns.  The handler goes on to insert the profile.
CreateUserDone(r) ==
  \E up \in BOOLEAN, trigger \in BOOLEAN :
    LET q == reqs[r]
        id == UserIds[r]
    IN /\ q.pc = "createUser"
       /\ IF ~up
          THEN /\ reqs' = [ reqs EXCEPT ![r] =
                      handleError([ q EXCEPT !.error = "authError" ], 400) ]
               /\ UNCHANGED << auth_users, profiles >>
          ELSE /\ auth_users' = auth_users \cup { id }
               /\ profiles' = IF trigger THEN profiles \cup { id } ELSE profiles
               /\ reqs' = [ reqs EXCEPT ![r] =
                      [ q EXCEPT !.pc = "insertProfile", !.user = id,
                                 !.ops = Append(q.ops, "insert profiles") ] ]
       /\ UNCHANGED << now, property_views, statsCache, process,
                       activeChannels, streams, testimonials, notifications >>

\* The insert of the profile answers: 201 with the profile, or, on an
\* error (the store cannot be reached, or profiles_id is stored already),
\* the handler calls auth.admin.deleteUser.
InsertProfile(r) ==
  \E up \in BOOLEAN :
    LET q == reqs[r]
        profileError == IF ~up THEN "unavailable"
                        ELSE IF q.user \in profiles THEN "23505" ELSE "none"
    IN /\ q.pc = "insertProfile"
       /\ IF profileError = "none"
          THEN /\ profiles' = profiles \cup { q.user }
               /\ reqs' = [ reqs EXCEPT ![r] = handleError(q, 201) ]
          ELSE /\ UNCHANGED profiles
               /\ reqs' = [ reqs EXCEPT ![r] =
                      [ q EXCEPT !.pc = "deleteUser", !.error = profileError,
                                 !.ops = Append(q.ops, "auth.admin.deleteUser") ] ]
       /\ UNCHANGED << now, property_views, statsCache, process, auth_users,
                       activeChannels, streams, testimonials, notifications >>

\* deleteUser answers, and the handler throws the error of the insert
\* (400) whatever the answer was: the user is deleted when the store can be
\* reached and no profile refers to it (profiles_profiles_id_fkey).  When
\* deleteUser throws, the catch block answers 500.
DeleteUser(r) ==
  \E up \in BOOLEAN, thrown \in BOOLEAN :
    LET q == reqs[r]
        deleted == up /\ q.user \notin profiles
    IN /\ q.pc = "deleteUser"
       /\ thrown => ~up
       /\ auth_users' = IF deleted THEN auth_users \ { q.user } ELSE auth_users
       /\ reqs' = [ reqs EXCEPT ![r] =
            handleError(q, IF thrown THEN 500 ELSE 400) ]
       /\ UNCHANGED << now, property_views, statsCache, process, profiles,
                       activeChannels, streams, testimonials, notifications >>

NextUsers ==
  \/ \E r \in ReqIds : CreateUser(r)
  \/ \E r \in ReqIds : CreateUserDone(r)
  \/ \E r \in ReqIds : InsertProfile(r)
  \/ \E r \in ReqIds : DeleteUser(r)

SpecUsers == Init /\ [][NextUsers]_vars

\* ----------------------------------------------------------- testimonials
\* The testimonials and the profiles that wrote them (profiles_id is UNIQUE
\* in public.testimonials).
TestimonialIds == { "t1", "t2" }
OwnerOf(id) == IF id = "t1" THEN "u1" ELSE "u2"

\* The values of the column approved: a boolean or NULL.
Approved == { "true", "false", NULL }

\* The AFTER UPDATE triggers the schema creates on public.testimonials, by
\* name; both execute notify_testimonial_approved().
TestimonialUpdateTriggers ==
  << "notify_testimonial_approved", "trigger_testimonial_approval_notification" >>

\* Row level security is enabled on testimonials with a policy for SELECT
\* and one for INSERT: the rows an UPDATE by role may change.
Updatable(table, role) ==
  IF BypassesRLS(role) THEN DOMAIN table ELSE {}

\* notify_testimonial_approved() for the update of old to new: the rows it
\* inserts into notifications.
notify_testimonial_approved(old, new, id) ==
  IF new.approved = "true" /\ (old.approved = "false" \/ old.approved = NULL)
  THEN SetToBag({ [ profiles_id |-> new.profiles_id,
                    type |-> "testimonial_approved",
                    testimonial_id |-> id ] })
  ELSE EmptyBag

\* The rows the first n triggers insert for the update of old to new.
RECURSIVE Fired(_, _, _, _)
Fired(n, old, new, id) ==
  IF n = 0 THEN EmptyBag
  ELSE Fired(n - 1, old, new, id) (+) notify_testimonial_approved(old, new, id)

\* UPDATE testimonials SET approved = ... WHERE id = ... by role: the number
\* of rows it has changed, and the two tables after it with the rows its
\* triggers have inserted.
UpdateApproved(id, approved, role) ==
  IF id \in Updatable(testimonials, role)
  THEN LET old == testimonials[id]
           new == [ old EXCEPT !.approved = approved ]
       IN [ rows |-> 1,
            testimonials |-> [ testimonials EXCEPT ![id] = new ],
            notifications |-> notifications (+)
              Fired(Len(TestimonialUpdateTriggers), old, new, id) ]
  ELSE [ rows |-> 0, testimonials |-> testimonials,
         notifications |-> notifications ]

\* Another client of the database updates approved of a testimonial.
UpdateTestimonial ==
  \E id \in TestimonialIds, approved \in Approved,
     role \in { "anon", "service_role" } :
    LET updated == UpdateApproved(id, approved, role)
    IN /\ BagCardinality(updated.notifications) <= MaxNotifications
       /\ testimonials' = updated.testimonials
       /\ notifications' = updated.notifications
       /\ UNCHANGED << now, property_views, reqs, statsCache, process,
                       auth_users, profiles, activeChannels, streams >>

\* PATCH /api/testimonials/:id/approve of an authenticated request, up to
\* the await of the update.
ApproveTestimonial(r) ==
  \E id \in TestimonialIds, approved \in Approved :
    LET q == [ IdleReq EXCEPT !.kind = "PATCH", !.rawId = << id >>,
                              !.body = << approved >> ]
    IN /\ NextSlot(r)
       /\ reqs' = [ reqs EXCEPT ![r] =
            [ q EXCEPT !.pc = "update", !.ops = << "update testimonials" >> ] ]
       /\ UNCHANGED << now, property_views, statsCache, ext >>

\* The store runs the update with the anon key and the handler answers:
\* 500 on an error, among them the one of .single() for an update that has
\* returned no row, otherwise the row.
ApproveTestimonialDone(r) ==
  \E up \in BOOLEAN :
    LET q == reqs[r]
        updated == UpdateApproved(q.rawId[1], q.body[1], supabase)
        error == IF ~up THEN "unavailable"
                 ELSE IF updated.rows # 1 THEN "PGRST116" ELSE "none"
    IN /\ q.pc = "update"
       /\ BagCardinality(updated.notifications) <= MaxNotifications
       /\ IF ~up
          THEN UNCHANGED << testimonials, notifications >>
          ELSE /\ testimonials' = updated.testimonials
               /\ notifications' = updated.notifications
       /\ reqs' = [ reqs EXCEPT ![r] =
            IF error # "none"
            THEN [ q EXCEPT !.pc = "done", !.error = error, !.status = 500,
                            !.writes = 1 ]
            ELSE [ q EXCEPT !.pc = "done", !.status = 200, !.writes = 1 ] ]
       /\ UNCHANGED << now, property_views, statsCache, process, auth_users,
                       profiles, activeChannels, streams >>

InitTestimonials ==
  /\ now = StartTime
  /\ property_views = EmptyBag
  /\ reqs = [ r \in ReqIds |-> IdleReq ]
  /\ statsCache = [ data |-> NullData, timestamp |-> 0 ]
  /\ Started /\ NoStreams
  /\ auth_users = Users
  /\ profiles = Users
  /\ testimonials = [ id \in TestimonialIds |->
                        [ profiles_id |-> OwnerOf(id), approved |-> "false" ] ]
  /\ notifications = EmptyBag

NextTestimonials ==
  \/ UpdateTestimonial
  \/ \E r \in ReqIds : ApproveTestimonial(r)
  \/ \E r \in ReqIds : ApproveTestimonialDone(r)

SpecTestimonials == InitTestimonials /\ [][NextTestimonials]_vars

\* ---------------------------------------------------------------- claims
\* The number of stored rows with the key (pid, ip, date).
KeyRows(pid, ip, date) ==
  RowCount(property_views,
           { x \in BagToSet(property_views) : SameKey(x, pid, ip, date) })

\* The number of stored rows of property pid.
PropertyRows(pid) ==
  RowCount(property_views,
           { x \in BagToSet(property_views) : x.property_id = pid })

\* Request r is a recordView that passed the validation of its id.
IsRecordView(r) ==
  /\ reqs[r].kind = "POST"
  /\ reqs[r].propertyId # <<>>

\* Request r is a recordView that has ended and met no store outage.
Recorded(r) ==
  /\ IsRecordView(r)
  /\ reqs[r].pc = "done"
  /\ reqs[r].error # "unavailable"

\* The calendar date of the call of request r.
DateOf(r) == CastToDate(reqs[r].viewed_date)

\* C1: in every reachable state the store holds at most one row for each
\* (propertyId, viewerIp, viewedDate) triple.
C1_AtMostOneRowPerTriple ==
  \A x \in BagToSet(property_views) :
    KeyRows(x.property_id, x.ip_address, x.viewed_date) <= 1

\* C1 witness: the store holds two rows, a recordView for a stored triple
\* and a getViewCount have ended.
C1_Witness ==
  /\ BagCardinality(property_views) = 2
  /\ \E r \in ReqIds :
       /\ Recorded(r)
       /\ KeyRows(reqs[r].propertyId, reqs[r].ip, DateOf(r)) = 1
  /\ \E r \in ReqIds : reqs[r].kind = "GET" /\ reqs[r].pc = "done"

\* C2 (as claimed): when the store answers the insert of a recordView whose
\* triple already has a stored row, no row is added and the call is not
\* failed: it goes on to answer with the count.
C2_DuplicateIsSuccess ==
  [][ \A r \in ReqIds :
        ( /\ IsRecordView(r)
          /\ reqs[r].pc = "insert"
          /\ reqs'[r].pc # "insert"
          /\ reqs'[r].error # "unavailable"
          /\ KeyRows(reqs[r].propertyId, reqs[r].ip, DateOf(r)) = 1 )
        => ( /\ property_views' = property_views
             /\ reqs'[r].status # 500 ) ]_vars

\* C3 (as claimed): the recordView calls of any set of one or more calls
\* for the same triple, once all have ended, have left exactly one row for
\* the triple and have all been answered with success.
C3_ConcurrentCallsOneRow ==
  \A S \in SUBSET ReqIds :
    ( /\ S # {}
      /\ \A r \in S : Recorded(r) /\ reqs[r].ip # NULL
      /\ \A r, o \in S :
           /\ reqs[r].propertyId = reqs[o].propertyId
           /\ reqs[r].ip = reqs[o].ip
           /\ DateOf(r) = DateOf(o) )
    => \A r \in S :
         /\ KeyRows(reqs[r].propertyId, reqs[r].ip, DateOf(r)) = 1
         /\ reqs[r].status = 200

\* C5 (as claimed): a successful getViewCount(P) returns the number of
\* stored rows with propertyId = P at the time of its count read.
C5_CountIsStoredRows ==
  [][ \A r \in ReqIds :
        ( /\ reqs[r].kind = "GET"
          /\ reqs[r].pc = "count"
          /\ reqs'[r].status = 200 )
        => reqs'[r].count = PropertyRows(reqs[r].propertyId) ]_vars

\* C6: a step of getViewCount, whether it answers with the count, with a
\* validation failure or with a store error, leaves the stored rows and the
\* stats cache slot as they were.
C6_GetViewCountReadOnly ==
  [][ \A r \in ReqIds :
        ( reqs'[r] # reqs[r] /\ reqs'[r].kind = "GET" )
        => ( /\ property_views' = property_views
             /\ statsCache' = statsCache ) ]_vars

\* C6 witness: a getViewCount has answered with a count while the store
\* holds a row and the stats cache a response.
C6_Witness ==
  /\ property_views # EmptyBag
  /\ statsCache.data # NullData
  /\ \E r \in ReqIds :
       /\ reqs[r].kind = "GET"
       /\ reqs[r].pc = "done"
       /\ reqs[r].status = 200

\* C8 (as claimed): for a property and an IP, the ended recordView calls
\* have stored exactly one row per calendar date of a call.
C8_OneRowPerCallDate ==
  \A pid \in Properties, ip \in Ips :
    LET calls == { r \in ReqIds :
                    Recorded(r) /\ reqs[r].propertyId = pid /\ reqs[r].ip = ip }
        dates == { DateOf(r) : r \in calls }
    IN \A d \in dates : KeyRows(pid, ip, d) = 1

\* C9 (as claimed): of two ended recordView calls for the same property on
\* the same day, whatever their viewer profiles, those from the same IP
\* have stored one row and those from two IPs have stored two rows.
C9_ProfileNotInKey ==
  \A r, o \in ReqIds :
    ( /\ Recorded(r) /\ Recorded(o) /\ r # o
      /\ reqs[r].ip # NULL /\ reqs[o].ip # NULL
      /\ reqs[r].propertyId = reqs[o].propertyId
      /\ DateOf(r) = DateOf(o) )
    => IF reqs[r].ip = reqs[o].ip
       THEN KeyRows(reqs[r].propertyId, reqs[r].ip, DateOf(r)) = 1
       ELSE /\ KeyRows(reqs[r].propertyId, reqs[r].ip, DateOf(r)) = 1
            /\ KeyRows(reqs[o].propertyId, reqs[o].ip, DateOf(o)) = 1

\* C10 (as claimed): a recordView with an empty or whitespace-only id, or
\* with no viewer IP, ends in a validation failure without any store
\* operation.
C10_InvalidInputNoStoreOp ==
  \A r \in ReqIds :
    ( /\ reqs[r].kind = "POST"
      /\ Trim(reqs[r].rawId) = <<>> \/ reqs[r].ip = NULL )
    => /\ reqs[r].pc = "done"
       /\ reqs[r].status = 400

\* C11: the step in which a recordView meets an unavailable store answers
\* the caller with a failure and leaves every stored row as it was; the
\* rows that are stored are complete.
C11_UnavailableNoPartialState ==
  [][ \A r \in ReqIds :
        ( /\ reqs[r].kind = "POST"
          /\ reqs[r].error # "unavailable"
          /\ reqs'[r].error = "unavailable" )
        => ( /\ reqs'[r].pc = "done"
             /\ reqs'[r].status = 500
             /\ property_views' = property_views
             /\ \A x \in BagToSet(property_views') :
                  /\ x.property_id \in Properties
                  /\ x.ip_address \in Ips ) ]_vars

\* C11 witness: a recordView has been failed for an unavailable store while
\* rows are stored.
C11_Witness ==
  /\ property_views # EmptyBag
  /\ \E r \in ReqIds :
       /\ reqs[r].kind = "POST"
       /\ reqs[r].pc = "done"
       /\ reqs[r].error = "unavailable"
       /\ reqs[r].status = 500

\* C14: no step changes or removes a stored row: every row is stored after
\* the step as many times as before (and so the number of rows of a
\* property never decreases).
C14_AppendOnly ==
  [][ /\ property_views' # property_views =>
           \A x \in BagToSet(property_views) :
             CopiesIn(x, property_views') >= CopiesIn(x, property_views)
      /\ BagCardinality(property_views') >= BagCardinality(property_views) ]_vars

\* C14 witness: a recordView and a getViewCount for a property have ended
\* while a row of the property is stored.
C14_Witness ==
  \E r, o \in ReqIds :
    /\ IsRecordView(r) /\ reqs[r].pc = "done"
    /\ reqs[o].kind = "GET" /\ reqs[o].pc = "done"
    /\ reqs[o].propertyId = reqs[r].propertyId
    /\ PropertyRows(reqs[r].propertyId) >= 1

\* A store request of request r has met an error: the insert or the count
\* of a view, one of the four queries of the statistics, or their
\* Promise.all.
StoreError(r) ==
  \/ reqs[r].error \in { "unavailable", "PGRST204", "42501", "23502", "23505",
                         "23503", "rejected" }
  \/ \E i \in DOMAIN reqs[r].results : reqs[r].results[i].error

\* C12 (as claimed): no call sends a store request twice, and a call that
\* has ended after one of its store requests met an error has been answered
\* with an error.
C12_NoRetryErrorSurfaced ==
  \A r \in DOMAIN reqs :
    /\ \A i, j \in DOMAIN reqs[r].ops :
         i # j => reqs[r].ops[i] # reqs[r].ops[j]
    /\ ( reqs[r].pc = "done" /\ StoreError(r) ) => reqs[r].status # 200

StatsStarts(r) == reqs[r].pc = "idle" /\ reqs'[r].kind = "STATS"

\* Request q is a GET /stats that was served from the cache.
Hit(q) ==
  /\ q.kind = "STATS" /\ q.pc = "done" /\ q.ops = << >>
  /\ q.status = 200

\* Request q is a GET /stats that has run the four queries.
Computed(q) == q.kind = "STATS" /\ q.ops = StatsQueryNames

\* Every query of request q has answered without an error.
Succeeded(q) ==
  /\ q.results # NoResults
  /\ \A i \in DOMAIN q.results : ~q.results[i].error

\* The response the answers of the queries of request q add up to.
Counts(q) ==
  << q.results[1].count, q.results[2].count,
     q.results[3].count + q.results[4].count >>

\* C15: a GET /stats is served the cached payload only when, at its start,
\* now - timestamp < 4000 holds for the slot; when a payload is stored and
\* now - timestamp is 4000 or more, the call sends the queries instead.
C15_ServedOnlyWhileFresh ==
  [][ \A r \in DOMAIN reqs :
        StatsStarts(r) =>
          /\ cacheDuration = 4000
          /\ Hit(reqs'[r]) =>
               /\ statsCache.data # NullData
               /\ now - statsCache.timestamp < 4000
               /\ reqs'[r].body = statsCache.data
          /\ ( statsCache.data # NullData /\ now - statsCache.timestamp >= 4000 ) =>
               /\ reqs'[r].pc = "query"
               /\ reqs'[r].ops = StatsQueryNames
               /\ reqs'[r].body = NullData ]_vars

\* C15 witness: a call has been served from the cache, and another one, that
\* started exactly 4000 ms after the timestamp of the slot, runs the queries.
C15_Witness ==
  \E r, o \in DOMAIN reqs :
    /\ Hit(reqs[o]) /\ reqs[o].status = 200
    /\ reqs[r].pc = "query"
    /\ statsCache.data # NullData
    /\ reqs[r].t0 - statsCache.timestamp = 4000

\* C16: after a first call that has run the queries and has been answered
\* with its result, with every call in between served from the cache, a
\* call that starts less than cacheDuration after the first one sends no
\* query and is answered the payload of the first (the queries have then
\* run once); a call that starts later sends the queries again.
C16_HitDoesNotCompute ==
  [][ \A r \in DOMAIN reqs \ { 1 } :
        ( /\ StatsStarts(r)
          /\ Computed(reqs[1]) /\ reqs[1].pc = "done" /\ reqs[1].status = 200
          /\ \A o \in 2..(r - 1) : Hit(reqs[o]) )
        => IF now - reqs[1].t0 < cacheDuration
           THEN /\ Hit(reqs'[r])
                /\ reqs'[r].status = 200
                /\ reqs'[r].body = reqs[1].body
                /\ Cardinality({ o \in 1..r : Computed(reqs'[o]) }) = 1
           ELSE /\ reqs'[r].pc = "query"
                /\ Cardinality({ o \in 1..r : Computed(reqs'[o]) }) = 2 ]_vars

\* C16 witness: the first call has run the queries, the second has been
\* answered its payload from the cache and the third, after the ttl, has
\* run the queries again.
C16_Witness ==
  /\ Computed(reqs[1]) /\ reqs[1].status = 200
  /\ Hit(reqs[2]) /\ reqs[2].body = reqs[1].body
  /\ reqs[2].t0 > reqs[1].t0
  /\ Computed(reqs[3])
  /\ reqs[3].t0 - reqs[1].t0 >= cacheDuration

C18_FailureLeavesCache ==
  [][ \A r \in DOMAIN reqs :
        ( /\ reqs[r].pc = "query"
          /\ reqs'[r].pc = "done"
          /\ ~Succeeded(reqs'[r]) )
        => statsCache' = statsCache ]_vars

\* C19 (as claimed): a call that has ended after its computation failed has
\* been answered with an error, not with a success response.
C19_FailurePropagates ==
  \A r \in DOMAIN reqs :
    ( Computed(reqs[r]) /\ reqs[r].pc = "done" /\ ~Succeeded(reqs[r]) )
    => reqs[r].status \in { 408, 500 }

Resumes(r) ==
  /\ reqs[r].pc = "query"
  /\ reqs'[r].pc = "done"
  /\ reqs'[r].results # NoResults

\* The slot holds the response and the start time of the computation of
\* request q.
SlotWrittenBy(q) ==
  /\ Computed(q)
  /\ q.results # NoResults
  /\ statsCache = [ data |-> ResponseData(q.results), timestamp |-> q.t0 ]

\* C21: the slot is either empty or holds the payload and the timestamp of
\* one and the same computation, and every call served from the cache was
\* given the payload of a computation whose own start time was less than
\* cacheDuration before the start of the call.
C21_SlotPairOfOneComputation ==
  /\ \/ statsCache = [ data |-> NullData, timestamp |-> 0 ]
     \/ \E r \in DOMAIN reqs : SlotWrittenBy(reqs[r])
  /\ \A r \in DOMAIN reqs :
       Hit(reqs[r]) =>
         \E o \in DOMAIN reqs :
           /\ Computed(reqs[o])
           /\ reqs[o].results # NoResults
           /\ reqs[r].body = ResponseData(reqs[o].results)
           /\ reqs[r].t0 >= reqs[o].t0
           /\ reqs[r].t0 - reqs[o].t0 < cacheDuration

\* C21 witness: two computations overlapped, the one that started first
\* answered last with another result, and a third call has been served that
\* result from the slot, which holds it with the start time of its
\* computation.
C21_Witness ==
  \E r, o, h \in DOMAIN reqs :
    /\ Computed(reqs[r]) /\ reqs[r].pc = "done" /\ reqs[r].status = 200
    /\ Computed(reqs[o]) /\ reqs[o].pc = "done" /\ reqs[o].status = 200
    /\ reqs[r].t0 < reqs[o].t0
    /\ reqs[r].body # reqs[o].body
    /\ SlotWrittenBy(reqs[r])
    /\ Hit(reqs[h]) /\ reqs[h].body = reqs[r].body

\* C24 (as claimed): a GET /stats request calls res.json at most once, and
\* exactly once by the time its handler has ended.
C24_ExactlyOneResponse ==
  \A r \in DOMAIN reqs :
    reqs[r].kind = "STATS" =>
      /\ reqs[r].writes <= 1
      /\ reqs[r].pc = "done" => reqs[r].writes = 1

\* C25 (as claimed): no step makes the timestamp of the slot less than it
\* was.
C25_TimestampNeverDecreases ==
  [][ statsCache'.timestamp >= statsCache.timestamp ]_vars

\* C25 (amended): the timestamp of the slot changes only when the queries of
\* a call answer, it is then the start time of that call, never later than
\* now, and it is less than the timestamp it replaces only when that one is
\* the start time of another call, one that started after the writer.
C25_TimestampIsStartOfWriter ==
  [][ /\ \A r \in DOMAIN reqs :
           Resumes(r) => /\ statsCache'.timestamp = reqs[r].t0
                         /\ statsCache'.timestamp <= now
      /\ statsCache'.timestamp # statsCache.timestamp =>
           \E r \in DOMAIN reqs : Resumes(r)
      /\ statsCache'.timestamp < statsCache.timestamp =>
           \E r, o \in DOMAIN reqs :
             /\ r # o
             /\ Resumes(r)
             /\ Computed(reqs[o]) /\ reqs[o].pc = "done"
             /\ reqs[o].t0 = statsCache.timestamp
             /\ reqs[r].t0 < reqs[o].t0 ]_vars

\* C25 witness: the slot holds the start time of a call that has answered
\* after a call that started later had stored its own.
C25_Witness ==
  \E r, o \in DOMAIN reqs :
    /\ Computed(reqs[r]) /\ reqs[r].pc = "done" /\ reqs[r].status = 200
    /\ Computed(reqs[o]) /\ reqs[o].pc = "done" /\ reqs[o].status = 200
    /\ reqs[r].t0 < reqs[o].t0
    /\ statsCache.timestamp = reqs[r].t0
    /\ reqs[o].body # statsCache.data
    /\ now - reqs[o].t0 < cacheDuration

\* C26 (as claimed): no step of a request that the timeout has answered 408
\* changes the slot.
C26_TimedOutNeverWrites ==
  [][ \A r \in DOMAIN reqs :
        ( /\ reqs[r].timer = "fired"
          /\ reqs[r].status = 408
          /\ reqs'[r] # reqs[r] )
        => statsCache' = statsCache ]_vars

\* The insert of recordView q has succeeded: the handler has gone on to
\* send the count query.
InsertSucceeded(q) ==
  /\ q.kind = "POST"
  /\ q.ops = << "insert property_views", "count property_views" >>

Rejected(q) ==
  /\ q.pc = "done" /\ q.status = 401 /\ q.writes = 1
  /\ q.t0 = 0 /\ q.timer = "none" /\ q.ops = << >> /\ q.results = NoResults
  /\ q.body = NullData

\* Request q carries no token, a token that is not signed with JWT_SECRET
\* or one that names no user.
Unsigned(q) ==
  \/ TokenOf(q) = NULL
  \/ Decode(TokenOf(q)).secret # process.JWT_SECRET
  \/ Decode(TokenOf(q)).userId = NULL

\* Request q carries such a token, or the token of a user that has no
\* profile.
BadToken(q) ==
  \/ Unsigned(q)
  \/ Decode(TokenOf(q)).userId \notin profiles

\* The handler of GET /stats has run for request q.
Handled(q) == q.t0 # 0 \/ q.pc = "query" \/ q.ops # << >> \/ q.status = 200

\* C22: a request to GET /api/dashboard/stats that arrives without a token,
\* with a token of another signature, with an expired one or with one that
\* names no user is answered 401 in the step it arrives in; one whose
\* user's profile the lookup does not find is answered 401 in the step the
\* lookup answers in, and one whose token has expired when the second run
\* of authenticateToken starts in that step; no step of these requests
\* changes the cache, and the handler never runs for a request that has
\* been answered 401 or has such a token: it runs only in the step in which
\* the lookup of the second run finds the profile of the user of a token
\* that passed both runs.
C22_Unauthenticated401 ==
  [][ \A r \in DOMAIN reqs :
        LET q == reqs[r]
            p == reqs'[r]
        IN /\ ( /\ q.pc = "idle" /\ p.pc # "idle"
                /\ \/ TokenOf(p) = NULL
                   \/ verify(TokenOf(p), process.JWT_SECRET, now) # "ok"
                   \/ Decode(TokenOf(p)).userId = NULL )
              => Rejected(p) /\ statsCache' = statsCache
           /\ ( /\ q.pc = "profile" /\ p # q
                /\ Decode(TokenOf(q)).userId \notin profiles )
              => Rejected(p) /\ statsCache' = statsCache
           /\ ( /\ q.pc = "profile" /\ q.pass = 1 /\ p # q
                /\ verify(TokenOf(q), process.JWT_SECRET, now) # "ok" )
              => Rejected(p) /\ statsCache' = statsCache
           /\ ( ~Handled(q) /\ Handled(p) )
              => /\ q.pc = "profile" /\ q.pass = 2
                 /\ ~BadToken(q)
           /\ ( p.status = 401 \/ Unsigned(p) ) => ~Handled(p) ]_vars

\* C22 witness: a request with the token of a user that has no profile has
\* been answered 401 after the lookup, one whose token expired between the
\* two runs of authenticateToken has been answered 401 by the second.
C22_Witness ==
  \E r, o \in DOMAIN reqs :
    /\ TokenOf(reqs[r]) = "orphan" /\ Rejected(reqs[r]) /\ reqs[r].pass = 1
    /\ TokenOf(reqs[o]) = "soon" /\ Rejected(reqs[o]) /\ reqs[o].pass = 2
    /\ reqs[o].error = "TokenExpiredError"

\* C23: a process that was started without JWT_SECRET is starting or has
\* exited, it never listens, and no request has been accepted by it.
C23_NoSecretNeverListens ==
  process.JWT_SECRET = NULL =>
    /\ process.state \in { "starting", "exited" }
    /\ \A r \in DOMAIN reqs : reqs[r] = IdleReq

\* C23 witness: the process started without JWT_SECRET has exited.
C23_Witness ==
  /\ process.JWT_SECRET = NULL
  /\ process.state = "exited"

\* C28 (as claimed): after every step, the stream of every open connection
\* whose channel is SUBSCRIBED is the entry of its user in activeChannels;
\* and the cleanup of a stream leaves the entry of its user as it was when
\* that entry is the channel of another stream.
C28_EntryIsOpenSubscribedStream ==
  [][ /\ \A s \in DOMAIN streams' :
           ( streams'[s].open /\ streams'[s].channel = "SUBSCRIBED" )
           => /\ streams'[s].user \in DOMAIN activeChannels'
              /\ activeChannels'[streams'[s].user] = s
      /\ \A s \in DOMAIN streams :
           ( /\ streams[s].open /\ ~streams'[s].open
             /\ streams[s].user \in DOMAIN activeChannels
             /\ activeChannels[streams[s].user] # s )
           => activeChannels' = activeChannels ]_vars

\* C29 (as claimed): when POST /users has ended, the auth user it created
\* is stored only together with its profile; in particular after an error
\* response no auth user of the request is left without a profile.
C29_UserAndProfileTogether ==
  \A r \in DOMAIN reqs :
    ( reqs[r].kind = "USER" /\ reqs[r].pc = "done" )
    => ( UserIds[r] \in auth_users => UserIds[r] \in profiles )

\* The step changes approved of testimonial id from false or NULL to true.
Approves(id) ==
  /\ testimonials[id].approved \in { "false", NULL }
  /\ testimonials'[id].approved = "true"

\* C30 (as claimed): a step that changes approved of a testimonial from
\* false or NULL to true adds exactly one row to notifications, of type
\* testimonial_approved for the owner of the testimonial, and a step that
\* makes no such change adds none.
C30_OneNotificationPerApproval ==
  [][ /\ \A id \in DOMAIN testimonials :
           Approves(id) =>
             notifications' = notifications (+)
               SetToBag({ [ profiles_id |-> testimonials[id].profiles_id,
                            type |-> "testimonial_approved",
                            testimonial_id |-> id ] })
      /\ ( \A id \in DOMAIN testimonials : ~Approves(id) )
           => notifications' = notifications ]_vars

====
